---- MODULE Spec2Model ----
(***************************************************************************)
(* State machine of src/script.js: the banking demo's accounts map, the    *)
(* per-account observer lists, the command (undo) stack, the two displayed *)
(* counters and the notification feed, with one action per click handler.  *)
(*                                                                         *)
(* Money.  The code keeps balances as IEEE doubles.  The model keeps them  *)
(* as an exact integer number of ticks, TicksPerRupee ticks to the rupee,  *)
(* chosen so that every interest computation reachable within MaxInterest  *)
(* applications is exact; all input amounts are whole hundreds of rupees.  *)
(* Floating-point rounding is therefore outside the model.                 *)
(***************************************************************************)
EXTENDS Integers, Sequences, FiniteSets, TLC

VARIABLES
    accounts,       \* the Map id -> Account (script.js:168), as a function
    commandStack,   \* executed commands, oldest first (script.js:169)
    nextAcctId,     \* script.js:170
    statCommands,   \* number shown in #stat-commands
    statObservers,  \* number shown in #stat-observers
    details,        \* id of the account shown in #acct-details, 0 = placeholder
    feed,           \* items the latest handler added to #notifications-feed, oldest first
    interestCount,  \* history: Apply Interest clicks since the last Reset
    unsubscribed,   \* history: the observers the latest handler removed, in list order
    steps           \* history: handler runs since the initial state that got past their input validation

vars == << accounts, commandStack, nextAcctId, statCommands, statObservers,
           details, feed, interestCount, unsubscribed,
           steps >>

-----------------------------------------------------------------------------
(* Bounds of the model *)

MaxSteps == 4
MaxAccounts == 3
MaxInterest == 1

-----------------------------------------------------------------------------
(* Program constants *)

FirstAcctId == 1001

RECURSIVE Pow(_, _)
Pow(b, n) == IF n = 0 THEN 1 ELSE b * Pow(b, n - 1)

\* Rates are expressed per RateDenominator: 0.04 = 8/200, 0.07 = 14/200, 0.005 = 1/200.
RateDenominator == 200

\* Every amount entering the model is a whole number of hundreds of rupees, so
\* 100 rupees must be divisible by RateDenominator^MaxInterest.
TicksPerRupee == IF MaxInterest = 0 THEN 1 ELSE 2 * Pow(RateDenominator, MaxInterest - 1)

Rupees(n) == n * TicksPerRupee

-----------------------------------------------------------------------------
(* Observer pattern *)

\* new CustomerObserver(name, email, feedEl)
CustomerObserver(name, email) == [name |-> name, email |-> email]

NoObserver == CustomerObserver("", "")

\* One item of the notifications feed (addNotification(title, message)).  An item
\* produced by CustomerObserver.update carries the observer and the account; the
\* message is kept as its kind and the numbers it prints.
Note(title, obs, acct, text, amount, balance) ==
    [title |-> title, obs |-> obs, acct |-> acct, text |-> text,
     amount |-> amount, balance |-> balance]

\* Mutant of Notify: the observers are walked from the newest to the oldest
NotifyNewestFirst(accts, id, text, amount) ==
    [i \in 1..Len(accts[id].observers) |->
        Note("observer", accts[id].observers[Len(accts[id].observers) + 1 - i], id,
             text, amount, accts[id].balance)]

\* AccountSubject.notify: one update per observer, in list order
Notify(accts, id, text, amount) ==
    [i \in 1..Len(accts[id].observers) |->
        Note("observer", accts[id].observers[i], id, text, amount, accts[id].balance)]

\* AccountSubject.attach
Attach(accts, id, observer) ==
    [accts EXCEPT ![id].observers = Append(@, observer)]

\* Mutant of Detach: only the first observer with the email is removed
DetachFirstOnly(accts, id, observerEmail) ==
    LET obs == accts[id].observers
        hits == {k \in 1..Len(obs) : obs[k].email = observerEmail}
    IN  IF hits = {} THEN accts
        ELSE LET k == CHOOSE h \in hits : \A j \in hits : h <= j
             IN  [accts EXCEPT ![id].observers =
                        SubSeq(obs, 1, k - 1) \o SubSeq(obs, k + 1, Len(obs))]

\* AccountSubject.detach
Detach(accts, id, observerEmail) ==
    [accts EXCEPT ![id].observers = SelectSeq(@, LAMBDA o : o.email # observerEmail)]

RECURSIVE SumObservers(_, _)
SumObservers(accts, ids) ==
    IF ids = {} THEN 0
    ELSE LET id == CHOOSE x \in ids : TRUE
         IN  Len(accts[id].observers) + SumObservers(accts, ids \ {id})

\* updateObserverStat: the count over the accounts currently in the map
UpdateObserverStat(accts) == SumObservers(accts, DOMAIN accts)

-----------------------------------------------------------------------------
(* Strategy pattern *)

\* Mutant of Calculate: the rates of 'fixed' and 'current' are swapped
CalculateSwapped(type, balance) ==
    CASE type = "savings" -> (balance * 8) \div RateDenominator
      [] type = "fixed"   -> (balance * 1) \div RateDenominator
      [] type = "current" -> (balance * 14) \div RateDenominator
      [] OTHER            -> 0

\* SavingsInterest / FixedInterest / CurrentInterest / InterestStrategy .calculate
Calculate(type, balance) ==
    CASE type = "savings" -> (balance * 8) \div RateDenominator
      [] type = "fixed"   -> (balance * 14) \div RateDenominator
      [] type = "current" -> (balance * 1) \div RateDenominator
      [] OTHER            -> 0

-----------------------------------------------------------------------------
(* Account (receiver).  Each method yields the accounts after the call, the  *)
(* observer updates it delivered, and err: the message of the exception it   *)
(* threw, "" when it returned normally.                                      *)

Result(err, accts, notes) == [err |-> err, accts |-> accts, notes |-> notes]

\* new Account(id, owner, type, balance)
Account(id, owner, type, balance) ==
    [id |-> id, owner |-> owner, type |-> type, balance |-> balance, observers |-> << >>]

\* Mutant of AcctDeposit: the balance is assigned instead of increased
AcctDepositAssigns(accts, id, amount) ==
    IF amount <= 0 THEN Result("Amount must be > 0", accts, << >>)
    ELSE LET after == [accts EXCEPT ![id].balance = amount]
         IN  Result("", after, Notify(after, id, "deposited", amount))

\* Account.deposit
AcctDeposit(accts, id, amount) ==
    IF amount <= 0 THEN Result("Amount must be > 0", accts, << >>)
    ELSE LET after == [accts EXCEPT ![id].balance = @ + amount]
         IN  Result("", after, Notify(after, id, "deposited", amount))

\* Mutant of AcctWithdraw: the funds check is missing
AcctWithdrawUnchecked(accts, id, amount) ==
    IF amount <= 0 THEN Result("Amount must be > 0", accts, << >>)
    ELSE LET after == [accts EXCEPT ![id].balance = @ - amount]
         IN  Result("", after, Notify(after, id, "withdrawn", amount))

\* Account.withdraw
AcctWithdraw(accts, id, amount) ==
    IF amount <= 0 THEN Result("Amount must be > 0", accts, << >>)
    ELSE IF amount > accts[id].balance THEN Result("Insufficient funds", accts, << >>)
    ELSE LET after == [accts EXCEPT ![id].balance = @ - amount]
         IN  Result("", after, Notify(after, id, "withdrawn", amount))

\* Mutant of AcctTransferTo: the target is never credited
AcctTransferToNoCredit(accts, from, to, amount) ==
    IF from = to THEN Result("Cannot transfer to same account", accts, << >>)
    ELSE LET w == AcctWithdraw(accts, from, amount)
         IN  IF w.err # "" THEN w
             ELSE Result("", w.accts,
                         w.notes \o Notify(w.accts, from, "transferred", amount)
                                 \o Notify(w.accts, to, "received", amount))

\* Account.transferTo
AcctTransferTo(accts, from, to, amount) ==
    IF from = to THEN Result("Cannot transfer to same account", accts, << >>)
    ELSE LET w == AcctWithdraw(accts, from, amount)
         IN  IF w.err # "" THEN w
             ELSE LET d == AcctDeposit(w.accts, to, amount)
                  IN  IF d.err # "" THEN Result(d.err, d.accts, w.notes)
                      ELSE Result("", d.accts,
                                  w.notes \o d.notes
                                  \o Notify(d.accts, from, "transferred", amount)
                                  \o Notify(d.accts, to, "received", amount))

\* Account.applyInterest
AcctApplyInterest(accts, id) ==
    LET interest == Calculate(accts[id].type, accts[id].balance)
        after == [accts EXCEPT ![id].balance = @ + interest]
    IN  Result("", after, Notify(after, id, "interest", interest))

-----------------------------------------------------------------------------
(* Command pattern.  A command refers to its accounts by id: accounts leave  *)
(* the map only on Reset, which also empties the stack.  The fields pre,     *)
(* preTo and clean are history kept for the undo properties: the balances    *)
(* the touched accounts had right before execute(), and whether anything     *)
(* other than commands that were pushed later and undone successfully has    *)
(* happened to the command's accounts since.                                 *)

\* new DepositCommand(account, amount)
DepositCommand(account, amount) ==
    [kind |-> "Deposit", acct |-> account, toAcc |-> 0, amount |-> amount]

\* new WithdrawCommand(account, amount)
WithdrawCommand(account, amount) ==
    [kind |-> "Withdraw", acct |-> account, toAcc |-> 0, amount |-> amount]

\* new TransferCommand(fromAcc, toAcc, amount)
TransferCommand(fromAcc, toAcc, amount) ==
    [kind |-> "Transfer", acct |-> fromAcc, toAcc |-> toAcc, amount |-> amount]

\* The accounts a command refers to
Touched(cmd) == IF cmd.kind = "Transfer" THEN {cmd.acct, cmd.toAcc} ELSE {cmd.acct}

SystemNote(text, cmd) == Note("System", NoObserver, cmd.acct, text, cmd.amount, 0)

\* DepositCommand.execute / WithdrawCommand.execute / TransferCommand.execute
Execute(accts, cmd) ==
    CASE cmd.kind = "Deposit"  -> AcctDeposit(accts, cmd.acct, cmd.amount)
      [] cmd.kind = "Withdraw" -> AcctWithdraw(accts, cmd.acct, cmd.amount)
      [] cmd.kind = "Transfer" -> AcctTransferTo(accts, cmd.acct, cmd.toAcc, cmd.amount)

\* Mutant of UndoDeposit: the undo repeats the deposit
UndoDepositRepeats(accts, cmd) ==
    LET d == AcctDeposit(accts, cmd.acct, cmd.amount)
    IN  IF d.err # "" THEN d
        ELSE Result("", d.accts, Append(d.notes, SystemNote("undo deposit", cmd)))

\* DepositCommand.undo: reverse deposit => withdraw
UndoDeposit(accts, cmd) ==
    LET w == AcctWithdraw(accts, cmd.acct, cmd.amount)
    IN  IF w.err # "" THEN w
        ELSE Result("", w.accts, Append(w.notes, SystemNote("undo deposit", cmd)))

\* WithdrawCommand.undo: reverse withdraw => deposit
UndoWithdraw(accts, cmd) ==
    LET d == AcctDeposit(accts, cmd.acct, cmd.amount)
    IN  IF d.err # "" THEN d
        ELSE Result("", d.accts, Append(d.notes, SystemNote("undo withdraw", cmd)))

\* TransferCommand.undo: withdraw from recipient and deposit back
UndoTransfer(accts, cmd) ==
    LET w == AcctWithdraw(accts, cmd.toAcc, cmd.amount)
    IN  IF w.err # "" THEN w
        ELSE LET d == AcctDeposit(w.accts, cmd.acct, cmd.amount)
             IN  IF d.err # "" THEN Result(d.err, d.accts, w.notes)
                 ELSE Result("", d.accts,
                             Append(w.notes \o d.notes, SystemNote("undo transfer", cmd)))

Undo(accts, cmd) ==
    CASE cmd.kind = "Deposit"  -> UndoDeposit(accts, cmd)
      [] cmd.kind = "Withdraw" -> UndoWithdraw(accts, cmd)
      [] cmd.kind = "Transfer" -> UndoTransfer(accts, cmd)

\* History fields of a stack entry
Recorded(cmd, accts) ==
    [kind |-> cmd.kind, acct |-> cmd.acct, toAcc |-> cmd.toAcc, amount |-> cmd.amount,
     pre |-> accts[cmd.acct].balance,
     preTo |-> IF cmd.kind = "Transfer" THEN accts[cmd.toAcc].balance ELSE 0,
     clean |-> TRUE]

Taint(stack, ids) ==
    [i \in 1..Len(stack) |->
        IF Touched(stack[i]) \cap ids # {} THEN [stack[i] EXCEPT !.clean = FALSE]
        ELSE stack[i]]

-----------------------------------------------------------------------------
(* Inputs *)

\* What parseInt(select.value) can be: the options are the accounts of the map
\* (renderAccountsList), or the single option "" (NaN, here 0) when it is empty.
SelectValues == IF DOMAIN accounts = {} THEN {0} ELSE DOMAIN accounts

\* Number(#amount.value), in rupees; 0 also stands for NaN (both fail "!amount")
AmountInputs == {-100, 0, 100}

\* #acct-name, #acct-type and parseFloat(#acct-balance): nan is an empty or
\* non-numeric field, val the parsed number in rupees
Parsed(n) == [nan |-> FALSE, val |-> n]
NotANumber == [nan |-> TRUE, val |-> 0]
CreateForms ==
    { << "", "savings", Parsed(100) >>,
      << "Dan", "gold", NotANumber >>,
      << "Dan", "current", Parsed(-100) >> }

\* parseFloat(value) || 0
OrZero(p) == IF p.nan \/ p.val = 0 THEN 0 ELSE p.val

\* name.toLowerCase().replace(/\s+/g,'') + "@demo.bank"
OwnerEmail(name) ==
    CASE name = "Alice" -> "alice@demo.bank"
      [] name = "Bob"   -> "bob@demo.bank"
      [] name = "CorpX" -> "corpx@demo.bank"
      [] name = "Dan"   -> "dan@demo.bank"

\* #subscribe-email, trimmed
EmailInputs == {"", "dan@demo.bank"}

\* email.split('@')[0]
LocalPart(email) ==
    CASE email = "dan@demo.bank" -> "dan"
      [] email = "eve@demo.bank" -> "eve"

\* The sample accounts of demo-setup, amounts in rupees
Demo == << << "Alice", "savings", 5000 >>,
           << "Bob", "current", 1200 >>,
           << "CorpX", "fixed", 25000 >> >>

-----------------------------------------------------------------------------
(* Handlers *)

Init ==
    /\ accounts = << >>
    /\ commandStack = << >>
    /\ nextAcctId = FirstAcctId
    /\ statCommands = 0
    /\ statObservers = 0
    /\ details = 0
    /\ feed = << >>
    /\ interestCount = 0
    /\ unsubscribed = << >>
    /\ steps = 0

\* A handler run that gets past its input validation; the model explores MaxSteps of them
Step == steps < MaxSteps /\ steps' = steps + 1

\* A handler that returns after its validation toast (showToast): nothing is
\* added to the feed and nothing else changes
Rejected ==
    /\ feed' = << >>
    /\ unsubscribed' = << >>
    /\ UNCHANGED << accounts, commandStack, nextAcctId, statCommands, statObservers,
                    details, interestCount, steps >>

\* What executeCommand(cmd) makes of the current state: try { execute, push,
\* refresh #stat-commands } catch { addNotification('Error', err.message) }
Executed(cmd) ==
    LET r == Execute(accounts, cmd)
        ok == r.err = ""
        pushed == Append(commandStack, Recorded(cmd, accounts))
    IN  [accounts |-> r.accts,
         commandStack |-> IF ok THEN pushed ELSE commandStack,
         statCommands |-> IF ok THEN Len(pushed) ELSE statCommands,
         feed |-> IF ok THEN r.notes
                  ELSE Append(r.notes, Note("Error", NoObserver, 0, r.err, 0, 0))]

\* executeCommand(cmd), then renderAccountsList()
ExecuteCommand(cmd) ==
    /\ Step
    /\ accounts' = Executed(cmd).accounts
    /\ commandStack' = Executed(cmd).commandStack
    /\ statCommands' = Executed(cmd).statCommands
    /\ feed' = Executed(cmd).feed
    /\ unsubscribed' = << >>
    /\ UNCHANGED << nextAcctId, statObservers, details, interestCount >>

\* $('cmd-deposit').onclick
CmdDeposit(id, amount) ==
    IF id = 0 \/ amount = 0 THEN Rejected
    ELSE ExecuteCommand(DepositCommand(id, Rupees(amount)))

\* $('cmd-withdraw').onclick
CmdWithdraw(id, amount) ==
    IF id = 0 \/ amount = 0 THEN Rejected
    ELSE ExecuteCommand(WithdrawCommand(id, Rupees(amount)))

\* $('cmd-transfer').onclick
CmdTransfer(fromId, toId, amount) ==
    IF fromId = 0 \/ toId = 0 \/ amount = 0
    THEN Rejected
    ELSE ExecuteCommand(TransferCommand(fromId, toId, Rupees(amount)))

\* Mutant of Undone: the command is popped only when its undo succeeded
UndoneKeepsCommand ==
    LET last == commandStack[Len(commandStack)]
        rest == SubSeq(commandStack, 1, Len(commandStack) - 1)
        r == Undo(accounts, last)
        ok == r.err = ""
    IN  [accounts |-> r.accts,
         commandStack |-> IF ok THEN rest ELSE Taint(commandStack, DOMAIN accounts),
         statCommands |-> IF ok THEN Len(rest) ELSE statCommands,
         feed |-> IF ok
                  THEN Append(r.notes, Note("Undo", NoObserver, last.acct, last.kind, 0, 0))
                  ELSE Append(r.notes, Note("Undo Error", NoObserver, 0, r.err, 0, 0))]

\* What cmd-undo makes of a state with a non-empty stack: pop, then
\* try { undo, notify, refresh #stat-commands } catch { 'Undo Error' }
Undone ==
    LET last == commandStack[Len(commandStack)]
        rest == SubSeq(commandStack, 1, Len(commandStack) - 1)
        r == Undo(accounts, last)
        ok == r.err = ""
    IN  [accounts |-> r.accts,
         commandStack |-> IF ok THEN rest ELSE Taint(rest, DOMAIN accounts),
         statCommands |-> IF ok THEN Len(rest) ELSE statCommands,
         feed |-> IF ok
                  THEN Append(r.notes, Note("Undo", NoObserver, last.acct, last.kind, 0, 0))
                  ELSE Append(r.notes, Note("Undo Error", NoObserver, 0, r.err, 0, 0))]

\* $('cmd-undo').onclick
CmdUndo ==
    IF Len(commandStack) = 0 THEN Rejected
    ELSE /\ Step
         /\ accounts' = Undone.accounts
         /\ commandStack' = Undone.commandStack
         /\ statCommands' = Undone.statCommands
         /\ feed' = Undone.feed
         /\ unsubscribed' = << >>
         /\ UNCHANGED << nextAcctId, statObservers, details, interestCount >>

\* What apply-interest makes of the accounts and the feed
InterestApplied(id) ==
    LET r == AcctApplyInterest(accounts, id)
    IN  [accounts |-> r.accts,
         feed |-> Append(r.notes, Note("Interest", NoObserver, id, "applied", 0, 0))]

\* $('apply-interest').onclick
ApplyInterest(id) ==
    IF id = 0 THEN Rejected
    ELSE /\ Step
         /\ interestCount < MaxInterest
         /\ accounts' = InterestApplied(id).accounts
         /\ commandStack' = Taint(commandStack, {id})
         /\ feed' = InterestApplied(id).feed
         /\ interestCount' = interestCount + 1
         /\ unsubscribed' = << >>
         /\ UNCHANGED << nextAcctId, statCommands, statObservers, details >>

\* $('create-acct').onclick
CreateAcct(name, type, balance) ==
    IF name = "" THEN Rejected
    ELSE LET id == nextAcctId
             acct == Account(id, name, type, Rupees(OrZero(balance)))
             set == [x \in DOMAIN accounts \cup {id} |->
                        IF x = id THEN acct ELSE accounts[x]]
             attached == Attach(set, id, CustomerObserver(name, OwnerEmail(name)))
         IN  /\ Step
             /\ nextAcctId < FirstAcctId + MaxAccounts
             /\ nextAcctId' = nextAcctId + 1
             /\ accounts' = attached
             /\ statObservers' = UpdateObserverStat(attached)
             /\ feed' = << Note("Account Created", NoObserver, id, type, 0, acct.balance) >>
             /\ unsubscribed' = << >>
             /\ UNCHANGED << commandStack, statCommands, details, interestCount >>

\* The body of demo.forEach in demo-setup, for Demo[i] with id first + i - 1:
\* the owner observer is attached, and the observer counter refreshed, before
\* the account is put into the map.
RECURSIVE DemoEach(_, _, _)
DemoEach(st, first, i) ==
    IF i > Len(Demo) THEN st
    ELSE LET id == first + i - 1
             n == Demo[i][1]
             acct == [Account(id, n, Demo[i][2], Rupees(Demo[i][3]))
                        EXCEPT !.observers = << CustomerObserver(n, OwnerEmail(n)) >>]
             stat == UpdateObserverStat(st.accts)
             set == [x \in DOMAIN st.accts \cup {id} |->
                        IF x = id THEN acct ELSE st.accts[x]]
         IN  DemoEach([accts |-> set, stat |-> stat], first, i + 1)

\* $('demo-setup').onclick
DemoSetup ==
    LET st == DemoEach([accts |-> accounts, stat |-> statObservers], nextAcctId, 1)
    IN  /\ Step
        /\ nextAcctId + Len(Demo) <= FirstAcctId + MaxAccounts
        /\ nextAcctId' = nextAcctId + Len(Demo)
        /\ accounts' = st.accts
        /\ statObservers' = st.stat
        /\ feed' = << Note("Demo", NoObserver, 0, "Demo accounts created", 0, 0) >>
        /\ unsubscribed' = << >>
        /\ UNCHANGED << commandStack, statCommands, details, interestCount >>

\* Mutant of ClearAll: the command stack is not emptied
ClearAllKeepsStack ==
    /\ Step
    /\ accounts' = << >>
    /\ nextAcctId' = FirstAcctId
    /\ feed' = << >>
    /\ statCommands' = 0
    /\ statObservers' = 0
    /\ details' = 0
    /\ interestCount' = 0
    /\ unsubscribed' = << >>
    /\ UNCHANGED commandStack

\* Mutant of ClearAll: the id counter is not put back
ClearAllKeepsNextId ==
    /\ Step
    /\ accounts' = << >>
    /\ commandStack' = << >>
    /\ feed' = << >>
    /\ statCommands' = 0
    /\ statObservers' = 0
    /\ details' = 0
    /\ interestCount' = 0
    /\ unsubscribed' = << >>
    /\ UNCHANGED nextAcctId

\* $('clear-all').onclick
ClearAll ==
    /\ Step
    /\ accounts' = << >>
    /\ commandStack' = << >>
    /\ nextAcctId' = FirstAcctId
    /\ feed' = << >>
    /\ statCommands' = 0
    /\ statObservers' = 0
    /\ details' = 0
    /\ interestCount' = 0
    /\ unsubscribed' = << >>

\* A click on an account card: showAccountDetails(acct)
ShowAccountDetails(id) ==
    /\ id \in DOMAIN accounts
    /\ Step
    /\ details' = id
    /\ feed' = << >>
    /\ unsubscribed' = << >>
    /\ UNCHANGED << accounts, commandStack, nextAcctId, statCommands, statObservers,
                    interestCount >>

\* $('subscribe-btn').onclick, bound to the account shown in the details panel
Subscribe(email) ==
    /\ details # 0
    /\ IF email = "" THEN Rejected
       ELSE LET name == LocalPart(email)
                attached == Attach(accounts, details, CustomerObserver(name, email))
            IN  /\ Step
                /\ accounts' = attached
                /\ statObservers' = UpdateObserverStat(attached)
                /\ feed' = << Note("Subscribe", NoObserver, details, name, 0, 0) >>
                /\ unsubscribed' = << >>
                /\ UNCHANGED << commandStack, nextAcctId, statCommands, details,
                                interestCount >>

\* What the details panel lists: the observers of the account it shows
Listed == IF details = 0 THEN {} ELSE 1..Len(accounts[details].observers)

\* The Unsub button of observer i of the account shown in the details panel
Unsub(i) ==
    /\ i \in Listed
    /\ Step
    /\ LET detached == Detach(accounts, details, accounts[details].observers[i].email)
       IN  /\ accounts' = detached
           /\ statObservers' = UpdateObserverStat(detached)
    /\ feed' = << >>
    /\ unsubscribed' = SelectSeq(accounts[details].observers,
           LAMBDA o : o.email = accounts[details].observers[i].email)
    /\ UNCHANGED << commandStack, nextAcctId, statCommands, details, interestCount >>

-----------------------------------------------------------------------------

Next ==
    \/ \E f \in CreateForms : CreateAcct(f[1], f[2], f[3])
    \/ \E id \in SelectValues, a \in AmountInputs : CmdDeposit(id, a)
    \/ \E id \in SelectValues, a \in AmountInputs : CmdWithdraw(id, a)
    \/ \E from \in SelectValues, to \in SelectValues, a \in AmountInputs :
          CmdTransfer(from, to, a)
    \/ CmdUndo
    \/ \E id \in SelectValues : ApplyInterest(id)
    \/ DemoSetup
    \/ ClearAll
    \/ \E id \in DOMAIN accounts : ShowAccountDetails(id)
    \/ \E e \in EmailInputs : Subscribe(e)
    \/ \E i \in Listed : Unsub(i)

Spec == Init /\ [][Next]_vars

-----------------------------------------------------------------------------
(* Commands and Undo on an account opened with a negative balance *)

\* The page after Create Account with name Dan, type current and balance -100
\* on a fresh page
InitUndo ==
    LET id == FirstAcctId
        acct == Account(id, "Dan", "current", Rupees(OrZero(Parsed(-100))))
        attached == Attach(id :> acct, id, CustomerObserver("Dan", OwnerEmail("Dan")))
    IN  /\ accounts = attached
        /\ commandStack = << >>
        /\ nextAcctId = id + 1
        /\ statCommands = 0
        /\ statObservers = UpdateObserverStat(attached)
        /\ details = 0
        /\ feed = << Note("Account Created", NoObserver, id, "current", 0, acct.balance) >>
        /\ interestCount = 0
        /\ unsubscribed = << >>
        /\ steps = 0

\* The clicks that create accounts, run commands and undo them
NextUndo ==
    \/ \E f \in CreateForms : CreateAcct(f[1], f[2], f[3])
    \/ \E id \in SelectValues, a \in AmountInputs : CmdDeposit(id, a)
    \/ \E id \in SelectValues, a \in AmountInputs : CmdWithdraw(id, a)
    \/ \E from \in SelectValues, to \in SelectValues, a \in AmountInputs :
          CmdTransfer(from, to, a)
    \/ CmdUndo

SpecUndo == InitUndo /\ [][NextUndo]_vars

-----------------------------------------------------------------------------
(* The details panel of an account: subscribing and unsubscribing *)

\* #subscribe-email, trimmed, with a second address to tell observers apart
ObserverEmails == EmailInputs \cup {"eve@demo.bank"}

\* The page after Demo Setup on a fresh page and a click on Alice's card
InitObservers ==
    LET st == DemoEach([accts |-> << >>, stat |-> 0], FirstAcctId, 1)
    IN  /\ accounts = st.accts
        /\ commandStack = << >>
        /\ nextAcctId = FirstAcctId + Len(Demo)
        /\ statCommands = 0
        /\ statObservers = st.stat
        /\ details = FirstAcctId
        /\ feed = << >>
        /\ interestCount = 0
        /\ unsubscribed = << >>
        /\ steps = 0

\* The clicks on the account cards and in the details panel, and deposits
NextObservers ==
    \/ \E id \in DOMAIN accounts : ShowAccountDetails(id)
    \/ \E e \in ObserverEmails : Subscribe(e)
    \/ \E i \in Listed : Unsub(i)
    \/ \E id \in SelectValues, a \in AmountInputs : CmdDeposit(id, a)

SpecObservers == InitObservers /\ [][NextObservers]_vars

-----------------------------------------------------------------------------
(* Vocabulary of the properties *)

Ids == DOMAIN accounts

Balance(id) == accounts[id].balance

\* The commands of the stack without their history fields
Cmd(e) == [kind |-> e.kind, acct |-> e.acct, toAcc |-> e.toAcc, amount |-> e.amount]
Commands(stack) == [i \in 1..Len(stack) |-> Cmd(stack[i])]

Top == commandStack[Len(commandStack)]

\* The newest feed item has this title
Newest(title) == feed # << >> /\ feed[Len(feed)].title = title

-----------------------------------------------------------------------------
(* C1: in every reachable state the balance of every account in the        *)
(* accounts map is greater than or equal to 0.                             *)
C1_BalanceNeverNegative == \A id \in Ids : Balance(id) >= 0

(* C10: the displayed observer counter equals the sum, over all accounts   *)
(* in the accounts map, of the length of the account's observer list.      *)
C10_ObserverStatIsTotal == statObservers = SumObservers(accounts, Ids)


-----------------------------------------------------------------------------
(* Undo *)

\* This step is a click on Undo with a command on the stack
UndoClick == commandStack # << >> /\ CmdUndo

\* The inverse operation of command c throws in the current state: the account
\* it has to debit holds less than the amount
InverseThrows(c) ==
    \/ c.kind = "Deposit" /\ c.amount > Balance(c.acct)
    \/ c.kind = "Transfer" /\ c.amount > Balance(c.toAcc)

\* The balances after the step are those before it with c's effect taken back
InverseApplied(c) ==
    \A id \in Ids :
        accounts'[id].balance =
            CASE c.kind = "Deposit" /\ id = c.acct   -> Balance(id) - c.amount
              [] c.kind = "Withdraw" /\ id = c.acct  -> Balance(id) + c.amount
              [] c.kind = "Transfer" /\ id = c.acct  -> Balance(id) + c.amount
              [] c.kind = "Transfer" /\ id = c.toAcc -> Balance(id) - c.amount
              [] OTHER                               -> Balance(id)

\* The accounts c touched have the balances they had right before c was executed
PriorRestored(c) ==
    /\ accounts'[c.acct].balance = c.pre
    /\ c.kind = "Transfer" => accounts'[c.toAcc].balance = c.preTo

-----------------------------------------------------------------------------
(* Commands that throw *)

\* The commands the three constructors can build over the current accounts
\* with the given amounts (in rupees)
CommandsOf(amounts) ==
    { DepositCommand(id, Rupees(a)) : id \in Ids, a \in amounts }
    \cup { WithdrawCommand(id, Rupees(a)) : id \in Ids, a \in amounts }
    \cup { TransferCommand(from, to, Rupees(a)) : from \in Ids, to \in Ids, a \in amounts }

\* Every command, an amount of 0 included (which the handlers never build)
AllCommands == CommandsOf(AmountInputs)

\* The commands the handlers hand to executeCommand
ClickCommands == CommandsOf(AmountInputs \ {0})

\* The message of the exception execute() is claimed to throw for c, "" for none
Thrown(c) ==
    IF c.kind = "Transfer" /\ c.acct = c.toAcc THEN "Cannot transfer to same account"
    ELSE IF c.amount <= 0 THEN "Amount must be > 0"
    ELSE IF c.kind \in {"Withdraw", "Transfer"} /\ c.amount > Balance(c.acct)
         THEN "Insufficient funds"
    ELSE ""

\* This step is a click that hands command c to executeCommand
Executes(c) ==
    /\ c.acct # 0 /\ c.amount # 0
    /\ CASE c.kind = "Deposit"  -> \E a \in AmountInputs :
                                      Rupees(a) = c.amount /\ CmdDeposit(c.acct, a)
         [] c.kind = "Withdraw" -> \E a \in AmountInputs :
                                      Rupees(a) = c.amount /\ CmdWithdraw(c.acct, a)
         [] c.kind = "Transfer" -> \E a \in AmountInputs :
                                      Rupees(a) = c.amount /\ CmdTransfer(c.acct, c.toAcc, a)

ErrorNote(msg) == Note("Error", NoObserver, 0, msg, 0, 0)

(* C3: in every reachable state, executeCommand of a command whose execute  *)
(* throws (amount <= 0, amount greater than the source balance of a         *)
(* Withdraw or Transfer, Transfer to the same account) leaves every account *)
(* unchanged, does not push the command onto the command stack, and adds    *)
(* exactly one 'Error' notification carrying the exception message.        *)
C3_ThrowingCommandHasNoEffect ==
    [](\A c \in AllCommands :
        Thrown(c) # "" =>
            Executed(c) = [accounts |-> accounts,
                           commandStack |-> commandStack,
                           statCommands |-> statCommands,
                           feed |-> << ErrorNote(Thrown(c)) >>])

\* A command has just been rejected for insufficient funds
C3_Witness ==
    /\ Ids # {}
    /\ feed = << ErrorNote("Insufficient funds") >>
    /\ commandStack = << >>

-----------------------------------------------------------------------------
(* Transfer *)

RECURSIVE SumBalances(_, _)
SumBalances(accts, ids) ==
    IF ids = {} THEN 0
    ELSE LET id == CHOOSE x \in ids : TRUE
         IN  accts[id].balance + SumBalances(accts, ids \ {id})

\* after holds the current balances with a moved from account from to account to
Moved(after, from, to, a) ==
    /\ DOMAIN after = Ids
    /\ \A id \in Ids :
        after[id].balance =
            IF id = from THEN Balance(id) - a
            ELSE IF id = to THEN Balance(id) + a
            ELSE Balance(id)
    /\ SumBalances(after, Ids) = SumBalances(accounts, Ids)

SameBalances(after) ==
    /\ DOMAIN after = Ids
    /\ \A id \in Ids : after[id].balance = Balance(id)

\* What executeCommand does with every Transfer that can be clicked now
TransfersMove ==
    \A c \in ClickCommands :
        c.kind = "Transfer"
            => LET after == Executed(c).accounts
               IN  IF Thrown(c) = "" THEN Moved(after, c.acct, c.toAcc, c.amount)
                   ELSE SameBalances(after)

\* What Undo does now when the newest command is a Transfer
TransferUndoMovesBack ==
    (commandStack # << >> /\ Top.kind = "Transfer")
        => LET after == Undone.accounts
           IN  IF InverseThrows(Top) THEN SameBalances(after)
               ELSE Moved(after, Top.toAcc, Top.acct, Top.amount)

(* C4: in every reachable state, a Transfer of a from A to a different      *)
(* account B that succeeds debits A by exactly a and credits B by exactly   *)
(* a, so the sum of all balances and every third balance are unchanged,     *)
(* and a Transfer that is rejected changes no balance; the Undo of a        *)
(* Transfer moves a back from B to A, or changes no balance when it fails.  *)
(* No click leaves one account debited without the other credited.         *)
C4_TransferIsAtomic == [](TransfersMove /\ TransferUndoMovesBack)

\* A Transfer has just been executed, or just been undone
C4_Witness ==
    \/ /\ commandStack # << >> /\ Top.kind = "Transfer"
       /\ \E i \in 1..Len(feed) : feed[i].text = "transferred"
    \/ /\ Newest("Undo") /\ feed[Len(feed)].text = "Transfer"

-----------------------------------------------------------------------------
(* Deposit and Withdraw *)

\* In the outcome n of executeCommand nothing of the program but the balance of
\* account id differs from the current state, and command c was pushed
OnlyBalanceOf(n, id, c) ==
    /\ DOMAIN n.accounts = Ids
    /\ \A x \in Ids :
        /\ x # id => n.accounts[x] = accounts[x]
        /\ n.accounts[x].observers = accounts[x].observers
        /\ n.accounts[x].owner = accounts[x].owner
        /\ n.accounts[x].type = accounts[x].type
        /\ n.accounts[x].id = accounts[x].id
    /\ Commands(n.commandStack) = Append(Commands(commandStack), c)

(* C5: in every reachable state, a Deposit of a > 0 on X sets X.balance to  *)
(* its previous value plus a, and a Withdraw of a (0 < a <= X.balance) to   *)
(* its previous value minus a; the other accounts, the set of accounts and  *)
(* every observer list are unchanged and the command stack grows by exactly *)
(* that one command; the handlers leave the next account id alone.         *)
C5_DepositWithdrawFrame ==
    [](\A c \in ClickCommands :
        LET n == Executed(c)
        IN  /\ (c.kind = "Deposit" /\ c.amount > 0)
                => /\ n.accounts[c.acct].balance = Balance(c.acct) + c.amount
                   /\ OnlyBalanceOf(n, c.acct, c)
            /\ (c.kind = "Withdraw" /\ c.amount > 0 /\ c.amount <= Balance(c.acct))
                => /\ n.accounts[c.acct].balance = Balance(c.acct) - c.amount
                   /\ OnlyBalanceOf(n, c.acct, c))
    /\ [][ Len(commandStack') > Len(commandStack) => nextAcctId' = nextAcctId ]_vars

\* A Deposit has just been executed on top of an earlier command
C5_Witness ==
    /\ Len(commandStack) >= 2
    /\ Top.kind = "Deposit"
    /\ Balance(Top.acct) = Top.pre + Top.amount
    /\ feed # << >> /\ feed[1].text = "deposited"

-----------------------------------------------------------------------------
(* The command stack *)

(* C6: each Undo click with a non-empty stack applies the inverse operation *)
(* of the most recently pushed command and removes exactly that command; a  *)
(* successful command is appended; an Undo click with an empty stack        *)
(* changes no balance and leaves the stack empty.                          *)
C6_StackIsLifoHistory ==
    [][ /\ UndoClick
            => /\ InverseApplied(Top)
               /\ Commands(commandStack')
                    = SubSeq(Commands(commandStack), 1, Len(commandStack) - 1)
        /\ (commandStack = << >> /\ CmdUndo)
            => SameBalances(accounts') /\ commandStack' = << >>
        /\ \A c \in ClickCommands :
            (Executes(c) /\ Thrown(c) = "")
                => Commands(commandStack') = Append(Commands(commandStack), c) ]_vars

-----------------------------------------------------------------------------
(* Reset *)

(* C7: Reset leaves the accounts map empty, the command stack empty, the    *)
(* next account id 1001 and both displayed counters 0, from any state; an   *)
(* Undo click on the empty stack is then a no-op.                          *)
C7_ResetRestoresInitialState ==
    [][ /\ ClearAll
            => /\ accounts' = << >>
               /\ commandStack' = << >>
               /\ nextAcctId' = 1001
               /\ statCommands' = 0 /\ statObservers' = 0
               /\ details' = 0 /\ feed' = << >>
        /\ (CmdUndo /\ commandStack = << >>)
            => UNCHANGED << accounts, commandStack, nextAcctId, statCommands,
                            statObservers >> ]_vars

\* Reset has acted on a state that held accounts
C7_Witness ==
    /\ steps >= 2
    /\ accounts = << >>
    /\ nextAcctId = 1001
    /\ statObservers = 0

-----------------------------------------------------------------------------
(* Interest *)

\* This step is Apply Interest on account id
InterestClick(id) == id # 0 /\ ApplyInterest(id)

(* C8: Apply Interest on an account adds balance * rate to its balance,     *)
(* rate being 4% for 'savings', 7% for 'fixed', 0.5% for 'current' and 0    *)
(* for any other type; no other account changes and the commands on the     *)
(* stack are unchanged.                                                    *)
C8_InterestByType ==
    [][ \A id \in Ids :
            InterestClick(id)
                => LET added == accounts'[id].balance - Balance(id)
                       type == accounts[id].type
                   IN  /\ type = "savings" => added * 100 = Balance(id) * 4
                       /\ type = "fixed" => added * 100 = Balance(id) * 7
                       /\ type = "current" => added * 1000 = Balance(id) * 5
                       /\ type \notin {"savings", "fixed", "current"} => added = 0
                       /\ DOMAIN accounts' = Ids
                       /\ \A x \in Ids \ {id} : accounts'[x] = accounts[x]
                       /\ Commands(commandStack') = Commands(commandStack)
                       /\ statCommands' = statCommands ]_vars

\* Interest has just been applied to an account with money, below a command
C8_Witness ==
    /\ Newest("Interest")
    /\ Balance(feed[Len(feed)].acct) > 0
    /\ commandStack # << >>

-----------------------------------------------------------------------------
(* Notification fan-out *)

BalanceTexts == {"deposited", "withdrawn", "interest"}
TransferTexts == {"transferred", "received"}

\* The observers the updates about account id, among items, went to, in
\* delivery order
Recipients(items, id, texts) ==
    LET picked == SelectSeq(items, LAMBDA n :
                    n.title = "observer" /\ n.acct = id /\ n.text \in texts)
    IN  [i \in 1..Len(picked) |-> picked[i].obs]

NoUpdates(items) == \A i \in 1..Len(items) : items[i].title # "observer"

\* Every account whose balance differs in after had its balance update delivered
\* once to each of its observers, in attachment order
ChangesDelivered(after, items) ==
    \A id \in Ids :
        after[id].balance # Balance(id)
            => Recipients(items, id, BalanceTexts) = accounts[id].observers

\* The observer updates of every operation that can be clicked now
UpdatesDelivered ==
    /\ \A c \in ClickCommands :
        LET n == Executed(c)
        IN  IF Thrown(c) # "" THEN NoUpdates(n.feed)
            ELSE /\ ChangesDelivered(n.accounts, n.feed)
                 /\ c.kind = "Transfer"
                    => /\ Recipients(n.feed, c.acct, TransferTexts)
                            = accounts[c.acct].observers
                       /\ Recipients(n.feed, c.toAcc, TransferTexts)
                            = accounts[c.toAcc].observers
                 /\ c.kind # "Transfer"
                    => \A i \in 1..Len(n.feed) : n.feed[i].text \notin TransferTexts
    /\ commandStack # << >>
        => LET u == Undone
           IN  /\ ChangesDelivered(u.accounts, u.feed)
               /\ InverseThrows(Top) => NoUpdates(u.feed)
    /\ \A id \in Ids :
        LET n == InterestApplied(id)
        IN  ChangesDelivered(n.accounts, n.feed)
    /\ \A i \in 1..Len(feed) :
        feed[i].title = "observer"
            => /\ feed[i].acct \in Ids
               /\ \E k \in 1..Len(accounts[feed[i].acct].observers) :
                    accounts[feed[i].acct].observers[k] = feed[i].obs

(* C9: in every reachable state, every balance change of X (by a deposit, a *)
(* withdraw, a leg of a transfer, interest, or the deposit/withdraw of an   *)
(* undo) delivers its update (deposited, withdrawn, interest) once to every *)
(* observer attached to X, in attachment order; every update about X goes   *)
(* to an observer of X, none to an observer attached only to another        *)
(* account; a rejected operation delivers no observer update.  (A transfer  *)
(* sends, besides the balance updates of its two legs, its own              *)
(* transferred/received message to the observers of its two accounts.)     *)
C9_ObserversNotified == []UpdatesDelivered

\* A deposit has just been delivered to two observers of one account, owner first
C9_Witness ==
    /\ Len(feed) = 2
    /\ feed[1].title = "observer" /\ feed[2].title = "observer"
    /\ feed[1].text = "deposited" /\ feed[2].text = "deposited"
    /\ feed[1].acct = feed[2].acct
    /\ feed[1].obs # feed[2].obs
    /\ accounts[feed[1].acct].observers = << feed[1].obs, feed[2].obs >>

-----------------------------------------------------------------------------
(* Unsubscribe *)

\* seq without the observers whose email is e, the others in their order
RECURSIVE Others(_, _)
Others(seq, e) ==
    IF seq = << >> THEN << >>
    ELSE IF Head(seq).email = e THEN Others(Tail(seq), e)
    ELSE << Head(seq) >> \o Others(Tail(seq), e)

\* Everything of account id but its observer list is the same after the step
SameButObservers(id) ==
    /\ accounts'[id].id = accounts[id].id
    /\ accounts'[id].owner = accounts[id].owner
    /\ accounts'[id].type = accounts[id].type
    /\ accounts'[id].balance = accounts[id].balance

(* C11: a click on the Unsub button of an observer with email e, in the     *)
(* details panel of account X, leaves X with exactly its observers whose    *)
(* email is not e, in their previous order: every observer with email e is  *)
(* removed, however often e was subscribed, and no other.  The observer     *)
(* lists of all other accounts, every balance, the set of accounts and the  *)
(* command stack are unchanged.                                            *)
C11_UnsubRemovesEmail ==
    [][ \A i \in Listed :
            Unsub(i)
                => LET e == accounts[details].observers[i].email
                   IN  /\ \A k \in 1..Len(accounts'[details].observers) :
                            accounts'[details].observers[k].email # e
                       /\ accounts'[details].observers
                            = Others(accounts[details].observers, e)
                       /\ \A k \in 1..Len(unsubscribed') : unsubscribed'[k].email = e
                       /\ Len(accounts'[details].observers) + Len(unsubscribed')
                            = Len(accounts[details].observers)
                       /\ DOMAIN accounts' = DOMAIN accounts
                       /\ \A id \in DOMAIN accounts :
                            /\ SameButObservers(id)
                            /\ id # details
                                => accounts'[id].observers = accounts[id].observers
                       /\ commandStack' = commandStack ]_vars

\* Unsub has just removed an email that was subscribed twice, and has left two
\* observers with different emails on the account
C11_Witness ==
    /\ Len(unsubscribed) >= 2
    /\ details # 0
    /\ Len(accounts[details].observers) >= 2
    /\ accounts[details].observers[1].email # accounts[details].observers[2].email

-----------------------------------------------------------------------------
(* The command counter *)

(* C12: in every reachable state, that is after every completed click       *)
(* (a command that succeeded or was rejected, an Undo that succeeded or     *)
(* failed, Reset), the number shown in 'stat-commands' equals the length of *)
(* the command stack.                                                      *)
C12_CommandStatIsStackLength == statCommands = Len(commandStack)

-----------------------------------------------------------------------------
(* Undo that fails *)

\* What Undo does now when the inverse of the newest command throws
FailedUndoOnlyPops ==
    (commandStack # << >> /\ InverseThrows(Top))
        => LET u == Undone
           IN  /\ SameBalances(u.accounts)
               /\ u.feed = << Note("Undo Error", NoObserver, 0, "Insufficient funds", 0, 0) >>
               /\ Len(u.commandStack) = Len(commandStack) - 1
               /\ Commands(u.commandStack)
                    = SubSeq(Commands(commandStack), 1, Len(commandStack) - 1)

\* Undo fails now exactly when the account to debit holds less than the amount
UndoFailsWhenShort ==
    commandStack # << >>
        => (InverseThrows(Top) <=> Undone.feed[Len(Undone.feed)].title = "Undo Error")

(* C13: in every reachable state, an Undo whose inverse operation throws    *)
(* (the newest command is a Deposit or a Transfer and the account its undo  *)
(* has to debit holds less than the amount) leaves every balance unchanged  *)
(* and adds exactly one notification, 'Undo Error'; the command is popped   *)
(* all the same: the stack is one shorter, the rest of it unchanged.  No    *)
(* Undo click ever puts a command back, so the popped command is never      *)
(* undone later.                                                           *)
C13_FailedUndoOnlyPops ==
    /\ [](FailedUndoOnlyPops /\ UndoFailsWhenShort)
    /\ [][ UndoClick
              => Commands(commandStack')
                    = SubSeq(Commands(commandStack), 1, Len(commandStack) - 1) ]_vars

\* The Undo of a Transfer has just failed: the Deposit that funded the transfer
\* is still on the stack, both accounts hold what the transfer left them, and
\* the counter still shows the two commands
C13_Witness ==
    /\ feed = << Note("Undo Error", NoObserver, 0, "Insufficient funds", 0, 0) >>
    /\ Len(commandStack) = 1
    /\ Top.kind = "Deposit" /\ Top.pre = 0
    /\ Balance(Top.acct) = 0
    /\ \E id \in Ids : id # Top.acct /\ Balance(id) = 0
    /\ statCommands = 2

-----------------------------------------------------------------------------
(* Account ids *)

\* The accounts a stacked command refers to
Referenced(e) == IF e.kind = "Transfer" THEN {e.acct, e.toAcc} ELSE {e.acct}

(* C14: in every reachable state each key of the accounts map is the id of  *)
(* the account stored under it, no two accounts of the map have the same    *)
(* id, every id in the map is at least 1001 and less than nextAcctId, and   *)
(* every account a command on the command stack refers to (source or        *)
(* target) is in the map.                                                  *)
C14_AccountIdsConsistent ==
    /\ \A id \in Ids :
        /\ accounts[id].id = id
        /\ id >= 1001
        /\ id < nextAcctId
    /\ \A a \in Ids, b \in Ids : accounts[a].id = accounts[b].id => a = b
    /\ \A i \in 1..Len(commandStack) : Referenced(commandStack[i]) \subseteq Ids

\* Three accounts hold the ids 1001..1003 and a Transfer between two of them is
\* on the command stack
C14_Witness ==
    /\ Ids = 1001..1003
    /\ nextAcctId = 1004
    /\ commandStack # << >>
    /\ Top.kind = "Transfer"
    /\ Top.acct # Top.toAcc

====
